---- MODULE Spec2Model ----
(***************************************************************************)
(* The JAX dispatch of PyTensor's scalar operators                         *)
(* (pytensor/link/jax/dispatch/scalar.py).                                 *)
(*                                                                         *)
(* jax_funcify(op, node, **kwargs) resolves a handler by the type of op    *)
(* and returns a callable; the callable is applied to operands later.      *)
(* A callable is a record naming the closure the handler returned; calling *)
(* it is an operator on that record.  An outcome of a call is a value or   *)
(* an exception.                                                           *)
(***************************************************************************)
EXTENDS Integers, Sequences, FiniteSets, TLC

VARIABLES
    pc,         \* "start", "resolved" or "called"
    request,    \* the arguments of jax_funcify: op, node, vectorize, and
                \* whether the provider module can be imported
    handler,    \* the handler the dispatcher ran
    fn,         \* the callable it returned, or the exception it raised
    args,       \* the operands the callable was called with
    out         \* the outcome of that call

vars == <<pc, request, handler, fn, args, out>>

(***************************************************************************)
(* Bounds of the model.                                                    *)
(***************************************************************************)
\* The most inputs a node has.
MaxInputs == 2
\* The most operands an arithmetic callable is called with.
MaxArgs == 3
\* Arithmetic operands are drawn from -MaxInt .. MaxInt.
MaxInt == 2
\* Clip operands are drawn from -MaxClip .. MaxClip.
MaxClip == 5
\* Softplus operands, in tenths, are drawn from -MaxTenths .. MaxTenths.
MaxTenths == 400
\* Composite operands are arrays of 1 .. MaxLen elements of 0 .. MaxElem.
MaxLen == 2
MaxElem == 1

(***************************************************************************)
(* Operator types and their superclass chain.                              *)
(***************************************************************************)
\* The types scalar.py imports, the two abstract families between them and
\* ScalarOp, two operators served by the generic handler (Exp, Sigmoid), and
\* user subclasses of an arithmetic and of a specialised operator.
Types ==
    { "object", "Op", "ScalarOp", "UnaryScalarOp", "BinaryScalarOp",
      "Add", "Mul", "Sub", "IntDiv", "Mod",
      "Cast", "Identity", "Clip", "Composite", "Second",
      "Erf", "Erfc", "Erfinv", "Erfcx", "Erfcinv", "Iv",
      "Log1mexp", "Psi", "Softplus",
      "Exp", "Sigmoid", "AddSubclass", "ModSubclass", "ClipSubclass" }

\* The direct superclass of each type.
Parent(t) ==
    CASE t = "Op" -> "object"
      [] t = "ScalarOp" -> "Op"
      [] t \in {"UnaryScalarOp", "BinaryScalarOp", "Add", "Mul", "Clip",
                "Composite"} -> "ScalarOp"
      [] t \in {"Sub", "IntDiv", "Mod", "Second", "Iv"} -> "BinaryScalarOp"
      [] t \in {"Cast", "Identity", "Erf", "Erfc", "Erfinv", "Erfcx",
                "Erfcinv", "Log1mexp", "Psi", "Softplus", "Exp", "Sigmoid"}
           -> "UnaryScalarOp"
      [] t = "AddSubclass" -> "Add"
      [] t = "ModSubclass" -> "Mod"
      [] t = "ClipSubclass" -> "Clip"
      [] OTHER -> "object"

\* t is a, or descends from it.
RECURSIVE Descends(_, _)
Descends(t, a) ==
    t = a \/ (t # "object" /\ Descends(Parent(t), a))

\* The types of which instances exist (the abstract ones have none).
ConcreteTypes == Types \ {"object", "Op", "ScalarOp", "UnaryScalarOp", "BinaryScalarOp"}

(***************************************************************************)
(* The two registries and single dispatch.                                 *)
(***************************************************************************)
\* jax_funcify.register(T): the handler registered for each type.  A variant
\* that loses the second decorator of jax_funcify_from_tfp comes first.
JaxFuncifyRegistryDroppingErfcinv ==
    [t \in {"ScalarOp", "Cast", "Identity", "Clip", "Composite", "Second",
            "Erf", "Erfc", "Erfinv", "Erfcx", "Iv", "Log1mexp",
            "Psi", "Softplus"} |->
        CASE t = "ScalarOp" -> "jax_funcify_ScalarOp"
          [] t = "Cast" -> "jax_funcify_Cast"
          [] t = "Identity" -> "jax_funcify_Identity"
          [] t = "Clip" -> "jax_funcify_Clip"
          [] t = "Composite" -> "jax_funcify_Composite"
          [] t = "Second" -> "jax_funcify_Second"
          [] t = "Erf" -> "jax_funcify_Erf"
          [] t = "Erfc" -> "jax_funcify_Erfc"
          [] t = "Erfinv" -> "jax_funcify_Erfinv"
          [] t = "Erfcx" -> "jax_funcify_from_tfp"
          [] t = "Iv" -> "jax_funcify_Iv"
          [] t = "Log1mexp" -> "jax_funcify_Log1mexp"
          [] t = "Psi" -> "jax_funcify_Psi"
          [] t = "Softplus" -> "jax_funcify_Softplus"]

JaxFuncifyRegistry ==
    [t \in {"ScalarOp", "Cast", "Identity", "Clip", "Composite", "Second",
            "Erf", "Erfc", "Erfinv", "Erfcx", "Erfcinv", "Iv", "Log1mexp",
            "Psi", "Softplus"} |->
        CASE t = "ScalarOp" -> "jax_funcify_ScalarOp"
          [] t = "Cast" -> "jax_funcify_Cast"
          [] t = "Identity" -> "jax_funcify_Identity"
          [] t = "Clip" -> "jax_funcify_Clip"
          [] t = "Composite" -> "jax_funcify_Composite"
          [] t = "Second" -> "jax_funcify_Second"
          [] t = "Erf" -> "jax_funcify_Erf"
          [] t = "Erfc" -> "jax_funcify_Erfc"
          [] t = "Erfinv" -> "jax_funcify_Erfinv"
          [] t \in {"Erfcx", "Erfcinv"} -> "jax_funcify_from_tfp"
          [] t = "Iv" -> "jax_funcify_Iv"
          [] t = "Log1mexp" -> "jax_funcify_Log1mexp"
          [] t = "Psi" -> "jax_funcify_Psi"
          [] t = "Softplus" -> "jax_funcify_Softplus"]

\* elemwise_scalar.register(T): the scalar implementations.
ElemwiseScalarRegistry ==
    [t \in {"Add", "Mul", "Sub", "IntDiv", "Mod"} |->
        CASE t = "Add" -> "elemwise_scalar_add"
          [] t = "Mul" -> "elemwise_scalar_mul"
          [] t = "Sub" -> "elemwise_scalar_sub"
          [] t = "IntDiv" -> "elemwise_scalar_intdiv"
          [] t = "Mod" -> "elemwise_scalar_mod"]

\* functools.singledispatch: the implementation registered for the type itself,
\* else that of the nearest registered type up its superclass chain, else the
\* function the dispatcher was created from (registered for object).
RECURSIVE Dispatch(_, _, _)
Dispatch(registry, default, t) ==
    IF t \in DOMAIN registry THEN registry[t]
    ELSE IF t = "object" THEN default
    ELSE Dispatch(registry, default, Parent(t))

\* The handler jax_funcify resolves for an operator type; the function the
\* dispatcher was created from raises the missing-implementation error.
JaxFuncifyHandler(t) == Dispatch(JaxFuncifyRegistry, "jax_funcify_default", t)

\* The implementation elemwise_scalar resolves; its default returns None.
ElemwiseScalarImpl(t) == Dispatch(ElemwiseScalarRegistry, "None", t)

(***************************************************************************)
(* Operator instances and nodes.                                           *)
(***************************************************************************)
\* The inner graph of a Composite: variables 1 .. nin are its inputs, variable
\* nin + k is the output of its k-th node.
NoGraph == [nin |-> 0, nodes |-> <<>>, outputs |-> <<>>]

SampleFGraphs ==
    { [nin |-> 2, nodes |-> << [op |-> "Add", ins |-> <<1, 2>>] >>,
       outputs |-> <<3>>],
      [nin |-> 2, nodes |-> << [op |-> "Add", ins |-> <<1, 2>>],
                               [op |-> "Mul", ins |-> <<1, 2>>] >>,
       outputs |-> <<3, 4>>],
      [nin |-> 2, nodes |-> << [op |-> "Sub", ins |-> <<1, 2>>],
                               [op |-> "Mul", ins |-> <<3, 1>>] >>,
       outputs |-> <<4>>],
      [nin |-> 2, nodes |-> << [op |-> "Sub", ins |-> <<1, 2>>],
                               [op |-> "Mul", ins |-> <<3, 1>>] >>,
       outputs |-> <<4, 3>>] }

\* An attribute the class does not declare.
NoAttr == <<>>

\* nfunc_spec[0] of an operator type, split at its dots.
NfuncName(t) ==
    CASE t \in {"Add", "AddSubclass"} -> <<"add">>
      [] t = "Mul" -> <<"multiply">>
      [] t = "Sub" -> <<"subtract">>
      [] t = "IntDiv" -> <<"floor_divide">>
      [] t \in {"Mod", "ModSubclass"} -> <<"mod">>
      [] t = "Exp" -> <<"exp">>
      [] t = "Sigmoid" -> <<"scipy", "special", "expit">>
      [] OTHER -> NoAttr

\* nfunc_spec[1], the number of inputs of the function nfunc_spec[0] names.
NfuncNin(t) ==
    IF t \in {"Add", "AddSubclass", "Mul", "Sub", "IntDiv", "Mod", "ModSubclass"}
    THEN 2 ELSE 1

\* nfunc_variadic: the reduction an operator that serves as its own n-ary form
\* declares.
NfuncVariadic(t) ==
    CASE t \in {"Add", "AddSubclass"} -> <<"sum">>
      [] t = "Mul" -> <<"product">>
      [] OTHER -> NoAttr

\* op.name of the instance of each type.
OpName(t) ==
    CASE t = "Erfcx" -> "erfcx"
      [] t = "Erfcinv" -> "erfcinv"
      [] t = "Iv" -> "iv"
      [] OTHER -> t

\* The operator instances: one per concrete type, one per inner graph for
\* Composite.
OpOf(t, g) ==
    [type |-> t, name |-> OpName(t), func_name |-> NfuncName(t),
     nin |-> NfuncNin(t), nfunc_variadic |-> NfuncVariadic(t), fgraph |-> g]

Ops ==
    {OpOf(t, NoGraph) : t \in ConcreteTypes \ {"Composite"}}
        \cup {OpOf("Composite", g) : g \in SampleFGraphs}

\* The rank of an input: an integer, or a value that `> 0` cannot compare.
Rank(n) == [comparable |-> TRUE, n |-> n]
RankNone == [comparable |-> FALSE, n |-> 0]
Ranks == {Rank(0), Rank(1), RankNone}

NdimTuples == UNION {[1 .. k -> Ranks] : k \in 0 .. MaxInputs}

\* The number of inputs of a node of an operator that is not variadic.
InputCount(o) ==
    CASE o.type = "Composite" -> o.fgraph.nin
      [] Descends(o.type, "Clip") -> 3
      [] Descends(o.type, "BinaryScalarOp") -> 2
      [] OTHER -> 1

\* The Apply node an operator is lowered for: the ranks of its inputs and the
\* number of its outputs, which for a Composite is that of its inner graph.
\* Only jax_funcify_ScalarOp reads the ranks; for the operators of the other
\* handlers the inputs are vectors.
NodesOf(o) ==
    {[ndims |-> nd,
      nout |-> IF o.type = "Composite" THEN Len(o.fgraph.outputs) ELSE 1] :
        nd \in IF JaxFuncifyHandler(o.type) = "jax_funcify_ScalarOp"
                THEN NdimTuples
                ELSE {[i \in 1 .. InputCount(o) |-> Rank(1)]}}

(***************************************************************************)
(* Callables and outcomes.                                                 *)
(***************************************************************************)
MkFn(kind) ==
    [kind |-> kind, op |-> "", impl |-> "", path |-> <<>>, nin |-> 0, variadic |-> <<>>,
     unwrap |-> FALSE, fgraph |-> NoGraph, exc |-> "", msg |-> <<>>]

\* No callable: a resolution that raised.
Raise(exc, msg) == [MkFn("raise") EXCEPT !.exc = exc, !.msg = msg]

NoFn == MkFn("none")

\* An outcome: a value or an exception, and the backend function that
\* produced it (none for Python's own operators).
Val(v) == [kind |-> "value", v |-> v, err |-> "", by |-> <<>>]
Err(e) == [kind |-> "error", v |-> 0, err |-> e, by |-> <<>>]
NoOut == [kind |-> "none", v |-> 0, err |-> "", by |-> <<>>]
By(path, o) == [o EXCEPT !.by = path]

(***************************************************************************)
(* try_import_tfp_jax_op, check_if_inputs_scalars, elemwise_scalar.        *)
(***************************************************************************)
TfpMessage(o) ==
    <<"No JAX implementation for Op", o.name,
      "Implementation is available if TensorFlow Probability is installed">>

\* A variant whose try block has no except clause.
try_import_tfp_jax_op_uncaught(o, jax_op_name, tfp_installed) ==
    IF ~tfp_installed
    THEN Raise("ModuleNotFoundError", <<"No module named", "tensorflow_probability">>)
    ELSE [MkFn("tfp_attr") EXCEPT
            !.path = <<"tensorflow_probability", "substrates", "jax", "math",
                       IF jax_op_name = "None" THEN o.name ELSE jax_op_name>>]

try_import_tfp_jax_op(o, jax_op_name, tfp_installed) ==
    IF ~tfp_installed
    THEN Raise("NotImplementedError", TfpMessage(o))
    ELSE [MkFn("tfp_attr") EXCEPT
            !.path = <<"tensorflow_probability", "substrates", "jax", "math",
                       IF jax_op_name = "None" THEN o.name ELSE jax_op_name>>]

\* The loop of check_if_inputs_scalars from input i on, acc being
\* are_inputs_scalars so far.
RECURSIVE ScalarsLoop(_, _, _)
ScalarsLoop(ndims, i, acc) ==
    IF i > Len(ndims) THEN acc
    ELSE ScalarsLoop(ndims, i + 1,
            IF ~ndims[i].comparable THEN FALSE      \* except TypeError
            ELSE IF ndims[i].n > 0 THEN FALSE
            ELSE acc)

\* A variant that answers for the first input only.
check_if_inputs_scalars_first_only(node) ==
    Len(node.ndims) = 0 \/ (node.ndims[1].comparable /\ node.ndims[1].n = 0)

check_if_inputs_scalars(node) == ScalarsLoop(node.ndims, 1, TRUE)

\* elemwise_scalar(op): the closure of the implementation registered for the
\* type of op, or None.
elemwise_scalar(o) ==
    LET impl == ElemwiseScalarImpl(o.type) IN
    IF impl = "None" THEN NoFn
    ELSE [MkFn("elemwise") EXCEPT !.impl = impl]

(***************************************************************************)
(* The handlers.                                                           *)
(***************************************************************************)
\* getattr(jnp, name), or reduce(getattr, [jax] + name.split(".")) for a
\* dotted name: the attribute path of the backend function.
JnpFunc(func_name) ==
    IF Len(func_name) > 1 THEN <<"jax">> \o func_name
    ELSE <<"jax", "numpy">> \o func_name

jax_funcify_ScalarOp(o, node) ==
    LET func_name == o.func_name
        are_inputs_scalars == check_if_inputs_scalars(node)
        elemwise == elemwise_scalar(o)
        jnp_func == JnpFunc(func_name)
    IN  IF are_inputs_scalars /\ elemwise # NoFn THEN elemwise
        ELSE IF o.nfunc_variadic # NoAttr
        THEN [MkFn("variadic_elemwise") EXCEPT
                !.path = jnp_func, !.nin = o.nin,
                !.variadic = <<"jax", "numpy">> \o o.nfunc_variadic]
        ELSE [MkFn("jnp_func") EXCEPT !.path = jnp_func]

\* A variant that honours its vectorize argument.
jax_funcify_Composite_honouring_flag(o, node, vectorize) ==
    [MkFn(IF vectorize THEN "vectorize" ELSE "composite") EXCEPT
        !.unwrap = (node.nout = 1), !.fgraph = o.fgraph]

\* A variant that always unwraps element 0.
jax_funcify_Composite_always_unwrap(o, node, vectorize) ==
    [MkFn("vectorize") EXCEPT !.unwrap = TRUE, !.fgraph = o.fgraph]

\* jnp.vectorize(composite), composite returning jax_impl(*args)[0] for a node
\* of one output and jax_impl(*args) otherwise, jax_impl lowering op.fgraph.
jax_funcify_Composite(o, node, vectorize) ==
    [MkFn("vectorize") EXCEPT !.unwrap = (node.nout = 1), !.fgraph = o.fgraph]

jax_funcify_from_tfp(o, tfp_installed) ==
    try_import_tfp_jax_op(o, "None", tfp_installed)

\* The exception of try_import_tfp_jax_op propagates; otherwise the closure iv
\* over ive.
jax_funcify_Iv(o, tfp_installed) ==
    LET ive == try_import_tfp_jax_op(o, "bessel_ive", tfp_installed) IN
    IF ive.kind = "raise" THEN ive
    ELSE [MkFn("iv") EXCEPT !.path = ive.path]

\* The closure each of the remaining handlers returns.
SimpleClosure(h) ==
    CASE h = "jax_funcify_Cast" -> MkFn("cast")
      [] h = "jax_funcify_Identity" -> MkFn("identity")
      [] h = "jax_funcify_Clip" -> MkFn("clip")
      [] h = "jax_funcify_Second" -> MkFn("second")
      [] h = "jax_funcify_Erf" -> MkFn("erf")
      [] h = "jax_funcify_Erfc" -> MkFn("erfc")
      [] h = "jax_funcify_Erfinv" -> MkFn("erfinv")
      [] h = "jax_funcify_Log1mexp" -> MkFn("log1mexp")
      [] h = "jax_funcify_Psi" -> MkFn("psi")
      [] h = "jax_funcify_Softplus" -> MkFn("softplus")

Handlers == {JaxFuncifyRegistry[t] : t \in DOMAIN JaxFuncifyRegistry}

\* jax_funcify(op, node=node, vectorize=..., ...): the handler resolved for the
\* type of op, applied.
jax_funcify(o, node, vectorize, tfp_installed) ==
    LET h == JaxFuncifyHandler(o.type)
        r == CASE h = "jax_funcify_ScalarOp" -> jax_funcify_ScalarOp(o, node)
               [] h = "jax_funcify_Composite" ->
                     jax_funcify_Composite(o, node, vectorize)
               [] h = "jax_funcify_from_tfp" ->
                     jax_funcify_from_tfp(o, tfp_installed)
               [] h = "jax_funcify_Iv" -> jax_funcify_Iv(o, tfp_installed)
               [] h = "jax_funcify_default" ->
                     Raise("NotImplementedError",
                           <<"No JAX conversion for the given Op", o.name>>)
               [] OTHER -> SimpleClosure(h)
    IN  \* every closure is made in the scope of an op
        [r EXCEPT !.op = o.type]

(***************************************************************************)
(* Calling the arithmetic callables.                                       *)
(***************************************************************************)
Abs(x) == IF x < 0 THEN -x ELSE x
Sign(x) == IF x < 0 THEN -1 ELSE IF x > 0 THEN 1 ELSE 0

\* Integer division truncating towards zero, y # 0.
TruncDiv(x, y) == Sign(x) * Sign(y) * (Abs(x) \div Abs(y))

\* Python's int // and %: the truncated quotient and remainder, moved to the
\* floor when the remainder and the divisor differ in sign.  y # 0.
PyFloorDiv(x, y) ==
    LET div == TruncDiv(x, y)
        mod == x - div * y
    IN  IF mod # 0 /\ ((mod < 0) # (y < 0)) THEN div - 1 ELSE div

PyMod(x, y) ==
    LET mod == x - TruncDiv(x, y) * y
    IN  IF mod # 0 /\ ((mod < 0) # (y < 0)) THEN mod + y ELSE mod

\* sum(inputs): the running total from input i on.
RECURSIVE PySum(_, _, _)
PySum(inputs, i, acc) ==
    IF i > Len(inputs) THEN acc ELSE PySum(inputs, i + 1, acc + inputs[i])

\* reduce(operator.mul, inputs, 1).
RECURSIVE PyReduceMul(_, _, _)
PyReduceMul(inputs, i, acc) ==
    IF i > Len(inputs) THEN acc ELSE PyReduceMul(inputs, i + 1, acc * inputs[i])

\* Binding operands to the parameters (x, y) of a closure.
BindsXY(a) == Len(a) = 2

\* The closure `elemwise` of each elemwise_scalar implementation, called.
PyElemwise(impl, a) ==
    CASE impl = "elemwise_scalar_add" -> Val(PySum(a, 1, 0))
      [] impl = "elemwise_scalar_mul" -> Val(PyReduceMul(a, 1, 1))
      [] impl = "elemwise_scalar_sub" ->
            IF ~BindsXY(a) THEN Err("TypeError") ELSE Val(a[1] - a[2])
      [] impl = "elemwise_scalar_intdiv" ->
            IF ~BindsXY(a) THEN Err("TypeError")
            ELSE IF a[2] = 0 THEN Err("ZeroDivisionError")
            ELSE Val(PyFloorDiv(a[1], a[2]))
      [] impl = "elemwise_scalar_mod" ->
            IF ~BindsXY(a) THEN Err("TypeError")
            ELSE IF a[2] = 0 THEN Err("ZeroDivisionError")
            ELSE Val(PyMod(a[1], a[2]))

\* What an integer division or remainder by zero may yield on the backend: the
\* value is implementation defined (all bits set, zero, or the dividend), and
\* no exception is raised.
ImplDefined(x) == {-1, 0, x}

LaxDiv(x, y) == IF y = 0 THEN ImplDefined(x) ELSE {TruncDiv(x, y)}
LaxRem(x, y) == IF y = 0 THEN ImplDefined(x) ELSE {x - TruncDiv(x, y) * y}

\* jnp.floor_divide and jnp.mod on integers.
JnpFloorDivide(x, y) ==
    {IF Sign(x) # Sign(y) /\ p[2] # 0 THEN p[1] - 1 ELSE p[1] :
        p \in LaxDiv(x, y) \X LaxRem(x, y)}

JnpMod(x, y) ==
    {IF r # 0 /\ ((r < 0) # (y < 0)) THEN r + y ELSE r : r \in LaxRem(x, y)}

ArithmeticNames == {"add", "multiply", "subtract", "floor_divide", "mod"}

\* The binary backend function at `path`, called: the possible outcomes.
JnpBinary(path, a) ==
    LET name == path[Len(path)] IN
    IF Len(a) # 2 THEN {By(path, Err("TypeError"))}
    ELSE {By(path, Val(v)) : v \in
            CASE name = "add" -> {a[1] + a[2]}
              [] name = "multiply" -> {a[1] * a[2]}
              [] name = "subtract" -> {a[1] - a[2]}
              [] name = "floor_divide" -> JnpFloorDivide(a[1], a[2])
              [] name = "mod" -> JnpMod(a[1], a[2])}

\* jnp.stack(jnp.broadcast_arrays(*args), axis=0) of scalar operands: the
\* one-dimensional array of the operands, in order.
StackBroadcast(a) == [i \in 1 .. Len(a) |-> a[i]]

\* jnp.sum / jnp.product over axis 0 of a one-dimensional integer array.
RECURSIVE ReduceAxis0(_, _, _)
ReduceAxis0(name, arr, n) ==
    IF n = 0 THEN (IF name = "sum" THEN 0 ELSE 1)
    ELSE IF name = "sum" THEN ReduceAxis0(name, arr, n - 1) + arr[n]
    ELSE ReduceAxis0(name, arr, n - 1) * arr[n]

JnpReduce(path, arr) ==
    By(path, Val(ReduceAxis0(path[Len(path)], arr, Len(arr))))

\* A variant that tests len(args) >= op.nfunc_spec[1].
VariadicElemwise_reduce_at_arity(f, a) ==
    IF Len(a) >= f.nin
    THEN {JnpReduce(f.variadic, StackBroadcast(a))}
    ELSE JnpBinary(f.path, a)

\* The closure `elemwise` of jax_funcify_ScalarOp for an op with
\* nfunc_variadic, called.
VariadicElemwise(f, a) ==
    IF Len(a) > f.nin
    THEN {JnpReduce(f.variadic, StackBroadcast(a))}
    ELSE JnpBinary(f.path, a)

\* The outcomes of calling an arithmetic callable.
Outcomes(f, a) ==
    CASE f.kind = "elemwise" -> {PyElemwise(f.impl, a)}
      [] f.kind = "variadic_elemwise" -> VariadicElemwise(f, a)
      [] f.kind = "jnp_func" -> JnpBinary(f.path, a)

IsArithmetic(f) ==
    \/ f.kind \in {"elemwise", "variadic_elemwise"}
    \/ f.kind = "jnp_func" /\ f.path[Len(f.path)] \in ArithmeticNames

(***************************************************************************)
(* Clip, Softplus and Composite, called.                                   *)
(***************************************************************************)
\* jnp.where on scalars: both branches are computed, one is selected.
Where(c, a, b) == IF c THEN a ELSE b

\* A variant that is the backend's native clip.
Clip_native(x, min, max) ==
    LET lower == IF x < min THEN min ELSE x
    IN  IF lower > max THEN max ELSE lower

\* The closure `clip`.
Clip(x, min, max) == Where(x < min, min, Where(x > max, max, x))

\* The thresholds of softplus, -37.0, 18.0 and 33.3, in tenths.
SoftplusLow == -370
SoftplusMid == 180
SoftplusHigh == 333

\* Floating-point expressions are kept symbolic over an operand in tenths.
Array(x) == <<"array", x>>
Exp(e) == <<"exp", e>>
Log1p(e) == <<"log1p", e>>
Neg(e) == <<"neg", e>>
Plus(a, b) == <<"add", a, b>>

\* A variant whose last comparison is not strict.
Softplus_saturating_late(x) ==
    Where(x < SoftplusLow, Exp(Array(x)),
        Where(x < SoftplusMid, Log1p(Exp(Array(x))),
            Where(x <= SoftplusHigh, Plus(Array(x), Exp(Neg(Array(x)))),
                Array(x))))

\* The closure `softplus`.
Softplus(x) ==
    Where(x < SoftplusLow, Exp(Array(x)),
        Where(x < SoftplusMid, Log1p(Exp(Array(x))),
            Where(x < SoftplusHigh, Plus(Array(x), Exp(Neg(Array(x)))),
                Array(x))))

\* The node of an inner graph as jax_funcify sees it: its inputs are scalar
\* variables, of rank 0.
InnerNode(n) == [ndims |-> [i \in 1 .. Len(n.ins) |-> Rank(0)], nout |-> 1]

\* The value of a call whose outcome is determined.
CallValue(f, a) == (CHOOSE o \in Outcomes(f, a) : TRUE).v

\* jax_funcify(op.fgraph): each node of the graph in order, lowered by
\* jax_funcify and applied to the values of its inputs; env holds the values of
\* the variables so far.
RECURSIVE JaxImplEnv(_, _, _)
JaxImplEnv(g, env, k) ==
    IF k > Len(g.nodes) THEN env
    ELSE LET n == g.nodes[k]
             f == jax_funcify(OpOf(n.op, NoGraph), InnerNode(n), TRUE, TRUE)
             a == [i \in 1 .. Len(n.ins) |-> env[n.ins[i]]]
         IN  JaxImplEnv(g, Append(env, CallValue(f, a)), k + 1)

\* jax_impl(*args): the tuple of the outputs of the graph.
JaxImpl(g, scalars) ==
    LET env == JaxImplEnv(g, scalars, 1)
    IN  [j \in 1 .. Len(g.outputs) |-> env[g.outputs[j]]]

\* A Python value that is one item, or a tuple of items.
Single(x) == [tuple |-> FALSE, items |-> <<x>>]
Tuple(xs) == [tuple |-> TRUE, items |-> xs]

\* The closure `composite`.
Composite(f, scalars) ==
    IF f.unwrap THEN Single(JaxImpl(f.fgraph, scalars)[1])
    ELSE Tuple(JaxImpl(f.fgraph, scalars))

\* jnp.vectorize(composite) on one-dimensional arrays of a common length:
\* composite applied element by element; where it returns a tuple the result
\* is the tuple of the arrays of each component.
Vectorized(f, arrays) ==
    LET n == Len(arrays[1])
        at(i) == Composite(f, [k \in 1 .. Len(arrays) |-> arrays[k][i]])
        tuple == at(1).tuple
        width == Len(at(1).items)
    IN  [tuple |-> tuple,
         items |-> [j \in 1 .. width |-> [i \in 1 .. n |-> at(i).items[j]]]]

(***************************************************************************)
(* The state machine.                                                      *)
(***************************************************************************)
NoOp == OpOf("object", NoGraph)

NoRequest ==
    [op |-> NoOp, node |-> [ndims |-> <<>>, nout |-> 0],
     vectorize |-> FALSE, tfp_installed |-> FALSE]

Ints == (0 - MaxInt) .. MaxInt
IntTuples == UNION {[1 .. k -> Ints] : k \in 0 .. MaxArgs}
ClipInts == (0 - MaxClip) .. MaxClip
Tenths == (0 - MaxTenths) .. MaxTenths
ArrayTuples ==
    UNION {[1 .. 2 -> [1 .. n -> 0 .. MaxElem]] : n \in 1 .. MaxLen}

\* The keyword arguments and the environment a handler reads: vectorize is a
\* parameter of jax_funcify_Composite alone, and only try_import_tfp_jax_op
\* imports the provider.
VectorizeValues(o) ==
    IF JaxFuncifyHandler(o.type) = "jax_funcify_Composite" THEN BOOLEAN ELSE {TRUE}

TfpValues(o) ==
    IF JaxFuncifyHandler(o.type) \in {"jax_funcify_from_tfp", "jax_funcify_Iv"}
    THEN BOOLEAN ELSE {FALSE}

Requests ==
    UNION {[op : {o}, node : NodesOf(o), vectorize : VectorizeValues(o),
            tfp_installed : TfpValues(o)] : o \in Ops}

\* A request to lower an operator is pending.
Init ==
    /\ pc = "start"
    /\ request \in Requests
    /\ handler = "None"
    /\ fn = NoFn
    /\ args = <<>>
    /\ out = NoOut

\* jax_funcify(op, node=node, vectorize=vectorize) where the type of op
\* resolves to handler h.
Funcify(h) ==
    /\ pc = "start"
    /\ JaxFuncifyHandler(request.op.type) = h
    /\ pc' = "resolved"
    /\ handler' = h
    /\ fn' = jax_funcify(request.op, request.node, request.vectorize,
                         request.tfp_installed)
    /\ UNCHANGED <<request, args, out>>

Funcify_ScalarOp == Funcify("jax_funcify_ScalarOp")
Funcify_Clip == Funcify("jax_funcify_Clip")
Funcify_Composite == Funcify("jax_funcify_Composite")
Funcify_from_tfp == Funcify("jax_funcify_from_tfp")
Funcify_Iv == Funcify("jax_funcify_Iv")
Funcify_Softplus == Funcify("jax_funcify_Softplus")
Funcify_Other ==
    \E h \in Handlers \ {"jax_funcify_ScalarOp", "jax_funcify_Clip",
                          "jax_funcify_Composite", "jax_funcify_from_tfp",
                          "jax_funcify_Iv", "jax_funcify_Softplus"} : Funcify(h)

\* The callable that was returned is called with operands a, with outcome o;
\* the request that produced it is over.
Called(a, o) ==
    /\ pc' = "called"
    /\ request' = NoRequest
    /\ args' = a
    /\ out' = o
    /\ UNCHANGED <<handler, fn>>

CallElemwise ==
    /\ pc = "resolved"
    /\ IsArithmetic(fn)
    /\ \E a \in IntTuples : \E o \in Outcomes(fn, a) : Called(a, o)

CallClip ==
    /\ pc = "resolved"
    /\ fn.kind = "clip"
    /\ \E x \in ClipInts, min \in ClipInts, max \in ClipInts :
          Called(<<x, min, max>>, Val(Clip(x, min, max)))

CallSoftplus ==
    /\ pc = "resolved"
    /\ fn.kind = "softplus"
    /\ \E x \in Tenths : Called(<<x>>, Val(Softplus(x)))

CallComposite ==
    /\ pc = "resolved"
    /\ fn.kind = "vectorize"
    /\ \E arrays \in ArrayTuples : Called(arrays, Val(Vectorized(fn, arrays)))

Next ==
    \/ Funcify_ScalarOp
    \/ Funcify_Clip
    \/ Funcify_Composite
    \/ Funcify_from_tfp
    \/ Funcify_Iv
    \/ Funcify_Softplus
    \/ Funcify_Other
    \/ CallElemwise
    \/ CallClip
    \/ CallSoftplus
    \/ CallComposite

Spec == Init /\ [][Next]_vars

(***************************************************************************)
(* Properties.                                                             *)
(***************************************************************************)
\* Every input of the node has rank 0.
AllRankZero(node) ==
    \A i \in 1 .. Len(node.ndims) : node.ndims[i] = Rank(0)

Arithmetic == {"Add", "Mul", "Sub", "IntDiv", "Mod"}

\* C1: jax_funcify_ScalarOp selects by input rank: with every input of rank 0
\* (also with no inputs) an Add, Mul, Sub, IntDiv or Mod gets the closure of
\* its elemwise_scalar implementation; with an input of positive or
\* incomparable rank, or with no elemwise_scalar implementation, the result is
\* the backend function nfunc_spec[0] names, inside the variadic closure
\* exactly when the op declares nfunc_variadic.
C1_SelectsByRank ==
    (pc = "resolved" /\ handler = "jax_funcify_ScalarOp") =>
        LET o == request.op
            named == (IF Len(o.func_name) > 1 THEN <<"jax">> ELSE <<"jax", "numpy">>)
                        \o o.func_name
        IN  /\ (AllRankZero(request.node) /\ o.type \in Arithmetic) =>
                  /\ fn.kind = "elemwise"
                  /\ fn.impl = (CASE o.type = "Add" -> "elemwise_scalar_add"
                                  [] o.type = "Mul" -> "elemwise_scalar_mul"
                                  [] o.type = "Sub" -> "elemwise_scalar_sub"
                                  [] o.type = "IntDiv" -> "elemwise_scalar_intdiv"
                                  [] o.type = "Mod" -> "elemwise_scalar_mod")
            /\ (~AllRankZero(request.node)
                    \/ ~(\E a \in Arithmetic : Descends(o.type, a))) =>
                  /\ fn.kind \in {"jnp_func", "variadic_elemwise"}
                  /\ fn.path = named
                  /\ (fn.kind = "variadic_elemwise") = (o.nfunc_variadic # NoAttr)

\* An Add whose two inputs are scalars was given its Python implementation.
C1_Witness ==
    /\ pc = "resolved"
    /\ request.op.type = "Add"
    /\ request.node.ndims = <<Rank(0), Rank(0)>>
    /\ fn.kind = "elemwise"

\* The operand counts each arithmetic operator is built with: two, or two and
\* more for Add and Mul.
ValidCount(t, n) == IF t \in {"Add", "Mul"} THEN n >= 2 ELSE n = 2

\* The callable jax_funcify_ScalarOp returns for an operator type on the array
\* path: for a node with an input of rank 1.
ArrayPath(t) ==
    jax_funcify_ScalarOp(OpOf(t, NoGraph),
                         [ndims |-> <<Rank(1), Rank(0)>>, nout |-> 1])

\* What a caller observes of an outcome.
Observed(o) == [kind |-> o.kind, v |-> o.v, err |-> o.err]

\* C2: for Add, Sub, Mul, IntDiv and Mod and all integer operands, negative
\* ones and a zero divisor included, the scalar closure and the array
\* callable of the same operator have the identical outcome.
C2_PathsAgree ==
    (pc = "called" /\ fn.kind = "elemwise" /\ fn.op \in Arithmetic
        /\ ValidCount(fn.op, Len(args))) =>
        {Observed(o) : o \in Outcomes(ArrayPath(fn.op), args)} = {Observed(out)}

\* The same with the zero divisor of IntDiv and Mod left out.
C2_PathsAgreeNonzeroDivisor ==
    (pc = "called" /\ fn.kind = "elemwise" /\ fn.op \in Arithmetic
        /\ ValidCount(fn.op, Len(args))
        /\ ~(fn.op \in {"IntDiv", "Mod"} /\ args[2] = 0)) =>
        {Observed(o) : o \in Outcomes(ArrayPath(fn.op), args)} = {Observed(out)}

\* The binary function at `path` applied from the left over a[1 .. n], n >= 1.
RECURSIVE IterateLeft(_, _, _)
IterateLeft(path, a, n) ==
    IF n = 1 THEN a[1]
    ELSE (CHOOSE o \in JnpBinary(path, <<IterateLeft(path, a, n - 1), a[n]>>) :
            TRUE).v

\* C3: the closure made for an op that declares nfunc_variadic calls the
\* binary function when the operands are at most nfunc_spec[1], and stacks and
\* reduces exactly when they are more; the reduction equals the binary
\* function iterated from the left.
C3_VariadicShim ==
    (pc = "called" /\ fn.kind = "variadic_elemwise") =>
        /\ (Len(args) <= fn.nin) =>
              /\ out.by = fn.path
              /\ out \in JnpBinary(fn.path, args)
        /\ (Len(args) > fn.nin) =>
              /\ out.by = fn.variadic
              /\ out.kind = "value"
              /\ out.v = IterateLeft(fn.path, args, Len(args))

\* Three operands were stacked and reduced to a value that is not the identity
\* of the operation.
C3_Witness ==
    /\ pc = "called"
    /\ fn.kind = "variadic_elemwise"
    /\ Len(args) = 3
    /\ args[1] # args[2]
    /\ out.by = fn.variadic
    /\ out.v = 2

\* C4: clip(x, lo, hi) is lo if x < lo, else hi if x > hi, else x; so with
\* lo > hi it is lo for x < lo and hi for x >= lo, never x, and
\* clip(3, 5, 2) = 5 where min(max(x, lo), hi) = 2.
C4_ClipNested ==
    (pc = "called" /\ fn.kind = "clip") =>
        LET x == args[1]
            lo == args[2]
            hi == args[3]
            max_x_lo == IF x > lo THEN x ELSE lo
            naive == IF max_x_lo < hi THEN max_x_lo ELSE hi
        IN  /\ out.kind = "value"
            /\ x < lo => out.v = lo
            /\ (x >= lo /\ x > hi) => out.v = hi
            /\ (x >= lo /\ x <= hi) => out.v = x
            /\ (lo > hi /\ x < lo) => (out.v = lo /\ out.v # x)
            /\ (lo > hi /\ x >= lo) => (out.v = hi /\ out.v # x)
            /\ args = <<3, 5, 2>> => (out.v = 5 /\ naive = 2)

\* clip(3, 5, 2) was called and returned 5.
C4_Witness ==
    /\ pc = "called"
    /\ fn.kind = "clip"
    /\ args = <<3, 5, 2>>
    /\ out.v = 5

TfpOps == {"Erfcx", "Erfcinv", "Iv"}

\* With the provider missing, the resolution raised NotImplementedError with
\* a message naming the op and TensorFlow Probability.
RaisedUnimplemented ==
    /\ fn.kind = "raise"
    /\ fn.exc = "NotImplementedError"
    /\ fn.msg[2] = request.op.name
    /\ fn.msg[3] = "Implementation is available if TensorFlow Probability is installed"

RECURSIVE EvalVar(_, _, _)
EvalVar(g, v, xs) ==
    IF v <= g.nin THEN xs[v]
    ELSE LET n == g.nodes[v - g.nin]
             a == EvalVar(g, n.ins[1], xs)
             b == EvalVar(g, n.ins[2], xs)
         IN  CASE n.op = "Add" -> a + b
               [] n.op = "Mul" -> a * b
               [] n.op = "Sub" -> a - b

\* C6: the callable of a Composite returns the whole tuple of the results of
\* the inner graph when it has several outputs, and the one result, unwrapped,
\* when it has one.
C6_CompositeOutputs ==
    (pc = "called" /\ fn.kind = "vectorize") =>
        LET g == fn.fgraph
            n == Len(args[1])
            result(j) ==
                [i \in 1 .. n |->
                    EvalVar(g, g.outputs[j], [k \in 1 .. Len(args) |-> args[k][i]])]
        IN  /\ out.kind = "value"
            /\ out.v.tuple = (Len(g.outputs) > 1)
            /\ Len(out.v.items) = Len(g.outputs)
            /\ \A j \in 1 .. Len(g.outputs) : out.v.items[j] = result(j)

\* A Composite of two outputs was called on arrays of two elements and
\* returned two different arrays.
C6_Witness ==
    /\ pc = "called"
    /\ fn.kind = "vectorize"
    /\ Len(fn.fgraph.outputs) = 2
    /\ Len(args[1]) = 2
    /\ out.v.tuple
    /\ Len(out.v.items) = 2
    /\ out.v.items[1] # out.v.items[2]

\* C7: softplus takes exactly one branch, by strict comparison with -37.0,
\* 18.0 and 33.3: exp(x) below -37.0, log1p(exp(x)) from -37.0 to below 18.0,
\* x + exp(-x) from 18.0 to below 33.3, x from 33.3 on.
C7_SoftplusBranches ==
    (pc = "called" /\ fn.kind = "softplus") =>
        LET x == args[1]
            X == <<"array", x>>
        IN  /\ out.kind = "value"
            /\ x < -370 => out.v = <<"exp", X>>
            /\ (-370 <= x /\ x < 180) => out.v = <<"log1p", <<"exp", X>>>>
            /\ (180 <= x /\ x < 333) => out.v = <<"add", X, <<"exp", <<"neg", X>>>>>>
            /\ x >= 333 => out.v = X
            /\ x = -400 => out.v[1] = "exp"
            /\ x = 0 => out.v[1] = "log1p"
            /\ x = 400 => out.v = <<"array", 400>>

\* softplus(33.3) was called and returned its operand.
C7_Witness ==
    /\ pc = "called"
    /\ fn.kind = "softplus"
    /\ args = <<333>>
    /\ out.v = <<"array", 333>>

\* C8: an operand count that fits neither the nominal nor the variadic arity
\* ends in an error: the scalar closures of Add and Mul called with nothing,
\* those of Sub, IntDiv and Mod called with other than two operands, and the
\* variadic closure called with fewer than nfunc_spec[1].
C8_ArityErrors ==
    (pc = "called"
        /\ \/ fn.kind = "elemwise" /\ fn.op \in {"Add", "Mul"} /\ Len(args) = 0
           \/ fn.kind = "elemwise" /\ fn.op \in {"Sub", "IntDiv", "Mod"}
                /\ Len(args) # 2
           \/ fn.kind = "variadic_elemwise" /\ Len(args) < fn.nin) =>
        out.kind = "error"

\* The types with a handler of their own, besides ScalarOp.
Specialised ==
    {"Cast", "Identity", "Clip", "Composite", "Second", "Erf", "Erfc", "Erfinv",
     "Erfcx", "Erfcinv", "Iv", "Log1mexp", "Psi", "Softplus"}

\* The handler written for a specialised type.
OwnHandler(t) ==
    IF t \in {"Erfcx", "Erfcinv"} THEN "jax_funcify_from_tfp"
    ELSE [a \in Specialised \ {"Erfcx", "Erfcinv"} |->
            CASE a = "Cast" -> "jax_funcify_Cast"
              [] a = "Identity" -> "jax_funcify_Identity"
              [] a = "Clip" -> "jax_funcify_Clip"
              [] a = "Composite" -> "jax_funcify_Composite"
              [] a = "Second" -> "jax_funcify_Second"
              [] a = "Erf" -> "jax_funcify_Erf"
              [] a = "Erfc" -> "jax_funcify_Erfc"
              [] a = "Erfinv" -> "jax_funcify_Erfinv"
              [] a = "Iv" -> "jax_funcify_Iv"
              [] a = "Log1mexp" -> "jax_funcify_Log1mexp"
              [] a = "Psi" -> "jax_funcify_Psi"
              [] a = "Softplus" -> "jax_funcify_Softplus"][t]

\* The scalar implementation written for an arithmetic type.
OwnScalar(a) ==
    CASE a = "Add" -> "elemwise_scalar_add"
      [] a = "Mul" -> "elemwise_scalar_mul"
      [] a = "Sub" -> "elemwise_scalar_sub"
      [] a = "IntDiv" -> "elemwise_scalar_intdiv"
      [] a = "Mod" -> "elemwise_scalar_mod"

\* What C9 says of elemwise_scalar, seen where jax_funcify_ScalarOp consults
\* it: a subtype of an arithmetic type gets its ancestor's implementation, a
\* type with no such ancestor gets None and so the array path.
C9_ScalarResolution ==
    (pc = "resolved" /\ handler = "jax_funcify_ScalarOp"
        /\ AllRankZero(request.node)) =>
        /\ \A a \in Arithmetic :
              Descends(request.op.type, a) =>
                  (fn.kind = "elemwise" /\ fn.impl = OwnScalar(a))
        /\ ~(\E a \in Arithmetic : Descends(request.op.type, a)) =>
              fn.kind # "elemwise"

\* C9 as stated: the fourteen specialised types resolve to their own
\* handlers, every other ScalarOp subtype resolves to the generic handler.
C9_Original ==
    pc = "resolved" =>
        LET t == request.op.type IN
        /\ t \in Specialised => (handler = OwnHandler(t) /\ handler # "jax_funcify_ScalarOp")
        /\ (t \notin Specialised /\ Descends(t, "ScalarOp")) =>
              handler = "jax_funcify_ScalarOp"
        /\ C9_ScalarResolution

\* C9, amended: the handler is that of the type itself if it has one, else
\* that of the nearest type up its superclass chain that has one.  So the
\* fourteen specialised types resolve to their own handlers, a subtype of one
\* of them resolves to that ancestor's handler, and every other ScalarOp subtype
\* resolves to the generic handler; elemwise_scalar resolves likewise.
C9_NearestRegistered ==
    pc = "resolved" =>
        LET t == request.op.type
            above == {a \in Specialised : Descends(t, a)}
        IN  /\ t \in Specialised =>
                  (handler = OwnHandler(t) /\ handler # "jax_funcify_ScalarOp")
            /\ \A a \in above :
                  (\A b \in above : Descends(b, a)) => handler = OwnHandler(a)
            /\ (above = {} /\ Descends(t, "ScalarOp")) =>
                  handler = "jax_funcify_ScalarOp"
            /\ C9_ScalarResolution

\* A subclass of Clip was resolved to the handler of Clip.
C9_Witness ==
    /\ pc = "resolved"
    /\ request.op.type = "ClipSubclass"
    /\ handler = "jax_funcify_Clip"
    /\ fn.kind = "clip"

\* C10: the result of jax_funcify_Composite is the same for vectorize=True and
\* vectorize=False: the composite closure inside jnp.vectorize, returning a
\* tuple or one value by the number of outputs of the node.
C10_VectorizeIgnored ==
    (pc = "resolved" /\ handler = "jax_funcify_Composite") =>
        /\ fn = jax_funcify(request.op, request.node, ~request.vectorize,
                            request.tfp_installed)
        /\ fn.kind = "vectorize"
        /\ fn.unwrap = (request.node.nout = 1)

\* A Composite was lowered with vectorize=False.
C10_Witness ==
    /\ pc = "resolved"
    /\ handler = "jax_funcify_Composite"
    /\ ~request.vectorize
    /\ fn.kind = "vectorize"
    /\ ~fn.unwrap

====
